---- MODULE Spec2Model ----
(***************************************************************************)
(* Book.build of cclaw2epub.py as a state machine: one index fetch, one    *)
(* fetch per retained chapter anchor, one fetch per collected image, then  *)
(* the writers, the archive step and the exit of the temporary directory.  *)
(*                                                                         *)
(* Python strings that the code compares, splits or tests for a prefix are *)
(* sequences of code points; a heading text is the sequence of its words   *)
(* (the result of str.split()).  URLs are records of their parts, so that  *)
(* split('/')[-1], endswith and startswith are computed, not assumed.      *)
(***************************************************************************)
EXTENDS Integers, Sequences, FiniteSets, TLC

\* Longest index page (number of sibling h2/p elements) of the index study.
MaxIndexLen == 4
\* Longest index page of the page study (every element a p).
MaxChapters == 2
\* Most wp-block-image blocks, and most other images, in one chapter page.
MaxImages == 1
\* Most responses of one build that are an HTTP error page.
MaxErrors == 1

VARIABLES
    pc,         \* the statement Book.build is at
    volume,     \* the volume argument of build (<<>>: None)
    site,       \* what the remote site serves: the index page and the chapter pages
    soup,       \* fetch_toc's parsed index page
    cursor,     \* position of the running for loop
    chapters,   \* fetch_toc's chapters list, then toc.chapters
    images,     \* fetch_toc's images list, then toc.images
    fetched,    \* every requests.get made so far, in order
    tmp_dir,    \* the TemporaryDirectory of build
    Images,     \* OEBPS/Images: file name -> content
    Text,       \* OEBPS/Text: chapter name -> rendered page
    ncx,        \* OEBPS/toc.ncx: its navPoint entries
    nav,        \* OEBPS/Text/toc.xhtml: its li entries
    opf,        \* OEBPS/content.opf: its manifest items and spine
    raised,     \* the exception leaving build, if any
    out         \* TRUE once the archive exists at the output path

vars == <<pc, volume, site, soup, cursor, chapters, images, fetched, tmp_dir,
          Images, Text, ncx, nav, opf, raised, out>>

------------------------------------------------------------------------------
\* Python str operations on sequences of code points

Min(a, b) == IF a < b THEN a ELSE b

\* s.startswith(p)
StartsWith(s, p) ==
    /\ Len(p) <= Len(s)
    /\ \A i \in 1..Len(p) : s[i] = p[i]

\* a < b on str: the first differing code point decides, a proper prefix is smaller
StrLess(a, b) ==
    \E k \in 1..(Min(Len(a), Len(b)) + 1) :
        /\ \A i \in 1..(k - 1) : a[i] = b[i]
        /\ \/ k > Len(a) /\ k <= Len(b)
           \/ k <= Len(a) /\ k <= Len(b) /\ a[k] < b[k]

\* a > b on str
StrGreater(a, b) == StrLess(b, a)

\* "Volume", "Extras", "2", "10"
WVolume == <<86, 111, 108, 117, 109, 101>>
WExtras == <<69, 120, 116, 114, 97, 115>>
Tok2 == <<50>>
Tok10 == <<49, 48>>

\* the value argparse leaves in args.volume when --volume is not given
NoVolume == <<>>

\* Python truthiness of the volume argument (None and "" are both false)
Truthy(v) == v /= <<>>

------------------------------------------------------------------------------
\* URLs

BlogHost == "cclawtranslations.home.blog"

\* href.startswith('https://cclawtranslations.home.blog/')
OnDomain(href) == href.scheme = "https" /\ href.host = BlogHost

NoHref == [scheme |-> "", host |-> "", path |-> ""]
HrefPrologue == [scheme |-> "https", host |-> BlogHost, path |-> "prologue"]
HrefIllustrations == [scheme |-> "https", host |-> BlogHost, path |-> "illustrations"]
HrefPatreon == [scheme |-> "https", host |-> "www.patreon.com", path |-> "cclaw"]
ChapterHrefs == {HrefPrologue, HrefIllustrations}

\* an image URL <dir>/<file>.<ext>
Url(d, f, e) == [dir |-> d, file |-> f, ext |-> e]
CoverUrl == Url("https://cclawtranslations.files.wordpress.com/2020/01", "cover", "jpg")
MapUrl == Url("https://cclawtranslations.files.wordpress.com/2020/02", "map", "png")
ArtUrl == Url("https://cclawtranslations.files.wordpress.com/2020/02", "art", "webp")
ImageUrls == {CoverUrl, MapUrl, ArtUrl}

\* url.split('/')[-1]
Basename(url) == [file |-> url.file, ext |-> url.ext]

\* image.endswith('.jpg') / image.endswith('.png') of the content.opf template
MediaType(url) ==
    IF url.ext = "jpg" THEN "image/jpeg"
    ELSE IF url.ext = "png" THEN "image/png"
    ELSE ""

------------------------------------------------------------------------------
\* Pages

\* all sequences over S of length at most n
RECURSIVE SeqsUpTo(_, _)
SeqsUpTo(S, n) ==
    IF n = 0 THEN {<<>>}
    ELSE LET shorter == SeqsUpTo(S, n - 1)
         IN shorter \cup {Append(s, x) : s \in {t \in shorter : Len(t) = n - 1}, x \in S}

\* a sibling of the index page's content: an h2 of class "wp-block-heading
\* has-text-align-center" or a p of class "has-text-align-center"
Heading(words) ==
    [tag |-> "h2", text |-> words, a |-> FALSE, href |-> NoHref, name |-> ""]
Para(href, name) ==
    [tag |-> "p", text |-> <<>>, a |-> TRUE, href |-> href, name |-> name]
ParaNoAnchor ==
    [tag |-> "p", text |-> <<>>, a |-> FALSE, href |-> NoHref, name |-> ""]

HVolume2 == Heading(<<WVolume, Tok2>>)
HVolume10 == Heading(<<WVolume, Tok10>>)
HExtras == Heading(<<WExtras>>)
APrologue == Para(HrefPrologue, "Prologue")
AIllustrations == Para(HrefIllustrations, "Illustrations")
APatreon == Para(HrefPatreon, "Support us")

\* an index page: whether it has the h1.entry-title, the div.wp-block-image with
\* its img and the article:published_time meta, and its h2/p siblings in order
IndexPage(title, cover, meta, elems) ==
    [title |-> title, cover |-> cover, meta |-> meta, elems |-> elems]

\* a chapter page: the data-orig-file of its wp-block-image blocks in order, and
\* which of div.entry-content, div.wordads-ad-wrapper, div.sharedaddy, hr,
\* script and style it has
ChapterPage(blocks, entry, ad, share, hr, script, style) ==
    [blocks |-> blocks, entry |-> entry, ad |-> ad, share |-> share, hr |-> hr,
     script |-> script, style |-> style, loose |-> <<>>]

\* the page with, after its blocks, img elements of the entry content that are
\* in no wp-block-image block and carry data-orig-file and data-orig-size
\* (the items of a gallery block, say): their data-orig-file in order
WithLoose(page, loose) == [page EXCEPT !.loose = loose]

\* the body of a response that is no content (an HTTP error page)
ErrorIndex == IndexPage(FALSE, FALSE, FALSE, <<>>)
ErrorChapter == ChapterPage(<<>>, FALSE, FALSE, FALSE, FALSE, FALSE, FALSE)

FullPage(blocks) == ChapterPage(blocks, TRUE, TRUE, TRUE, TRUE, TRUE, TRUE)
BarePage(blocks) == ChapterPage(blocks, TRUE, FALSE, TRUE, FALSE, TRUE, FALSE)
NoSharePage(blocks) == ChapterPage(blocks, TRUE, TRUE, FALSE, TRUE, TRUE, TRUE)
NoScriptPage(blocks) == ChapterPage(blocks, TRUE, TRUE, TRUE, TRUE, FALSE, TRUE)

\* Index study: every index of up to MaxIndexLen headings and anchors, with
\* chapter pages that embed no image.
IndexStudyElems == {HVolume2, HVolume10, HExtras, APrologue, APatreon}
IndexStudySites ==
    {[toc |-> IndexPage(TRUE, TRUE, TRUE, elems), web |-> [h \in ChapterHrefs |-> FullPage(<<>>)]] :
        elems \in SeqsUpTo(IndexStudyElems, MaxIndexLen)}

\* Page study: short indexes without headings, and every chapter page of up to
\* MaxImages images with all elements, or without images in each other shape.
PageStudyElems == {APrologue, AIllustrations, ParaNoAnchor}
PageStudyPages ==
    {FullPage(b) : b \in SeqsUpTo(ImageUrls, MaxImages)}
        \cup {BarePage(<<>>), NoSharePage(<<>>), NoScriptPage(<<>>)}
        \cup {WithLoose(FullPage(<<>>), l) : l \in SeqsUpTo(ImageUrls, MaxImages) \ {<<>>}}
PageStudySites ==
    {[toc |-> IndexPage(TRUE, TRUE, TRUE, elems), web |-> w] :
        elems \in SeqsUpTo(PageStudyElems, MaxChapters),
        w \in [ChapterHrefs -> PageStudyPages]}
    \cup {[toc |-> IndexPage(TRUE, FALSE, TRUE, <<APrologue>>),
           web |-> [h \in ChapterHrefs |-> FullPage(<<>>)]]}

Sites == IndexStudySites \cup PageStudySites
Volumes == {NoVolume, Tok2, Tok10}

------------------------------------------------------------------------------
\* requests.get

Statuses == {"ok", "http_error", "exception"}

Request(kind, at, status) == [kind |-> kind, at |-> at, status |-> status]

ErrorCount == Cardinality({i \in 1..Len(fetched) : fetched[i].status = "http_error"})

\* the responses the site may give to the next request
CanGet(status) ==
    /\ status \in Statuses
    /\ status = "http_error" => ErrorCount < MaxErrors

\* requests.get(url).text / .content: the body, whatever the status
IndexBody(status) == IF status = "ok" THEN site.toc ELSE ErrorIndex
ChapterBody(href, status) == IF status = "ok" THEN site.web[href] ELSE ErrorChapter
ImageBody(status) == IF status = "ok" THEN "image" ELSE "error page"

------------------------------------------------------------------------------
\* Exceptions and the with block of build

NoException == [exc |-> "", at |-> ""]

\* an exception raised in step `at` leaves the with block
Raise(exc, at) ==
    /\ raised' = [exc |-> exc, at |-> at]
    /\ pc' = "exit_with"

\* TemporaryDirectory.__exit__: the directory is removed however the block is left
CleanupOnSuccess(exception) == IF exception = NoException THEN "removed" ELSE "present"
Cleanup(exception) == "removed"

NoFiles == [x \in {} |-> ""]

\* f with f[k] = v
Put(f, k, v) == [x \in DOMAIN f \cup {k} |-> IF x = k THEN v ELSE f[x]]

------------------------------------------------------------------------------
\* fetch_toc

\* the h2 headings whose text starts with "Volume"
VolumeHeadings(page) ==
    {i \in 1..Len(page.elems) :
        /\ page.elems[i].tag = "h2"
        /\ Len(page.elems[i].text) > 0
        /\ StartsWith(page.elems[i].text[1], WVolume)}

VolumesAndVolume(page, v) == VolumeHeadings(page) /= {} /\ Truthy(v)
\* `volumes and not volume`
MultiVolume(page, v) == VolumeHeadings(page) /= {} /\ ~Truthy(v)

\* soup.find_all('p', ...): the positions of the p elements, in document order
Paragraphs(elems) ==
    SelectSeq([i \in 1..Len(elems) |-> i], LAMBDA i : elems[i].tag = "p")

\* chapter.parent.find_previous_sibling('h2', ...): its position, 0 for None
PrevHeading(elems, i) ==
    LET hs == {j \in 1..(i - 1) : elems[j].tag = "h2"}
    IN IF hs = {} THEN 0 ELSE CHOOSE j \in hs : \A k \in hs : k <= j

\* .text.split()[-1] of that heading
ChapterVolume(elems, i) ==
    LET t == elems[PrevHeading(elems, i)].text IN t[Len(t)]

\* `chapter_volume < volume` and `chapter_volume > volume`
Earlier(chapter_volume, v) == StrLess(chapter_volume, v)
LaterSwapped(chapter_volume, v) == StrGreater(v, chapter_volume)
Later(chapter_volume, v) == StrGreater(chapter_volume, v)

CollectUnseen(imgs, html) ==
    imgs \o SelectSeq(html.blocks, LAMBDA u : \A i \in 1..Len(imgs) : imgs[i] /= u)
\* images.append for every wp-block-image of the chapter page
Collect(imgs, html) == imgs \o html.blocks

Chapter(name, html) == [name |-> name, html |-> html]

InLoop == pc = "toc_loop" /\ cursor <= Len(Paragraphs(soup.elems))
At == Paragraphs(soup.elems)[cursor]
Anchor == soup.elems[At]

\* lines 179-193
FetchToc(status) ==
    /\ pc = "fetch_toc"
    /\ CanGet(status)
    /\ fetched' = Append(fetched, Request("index", 0, status))
    /\ IF status = "exception"
       THEN /\ Raise("ConnectionError", "fetch_toc")
            /\ UNCHANGED <<soup, images, cursor>>
       ELSE LET page == IndexBody(status)
            IN /\ soup' = page
               /\ IF ~page.title \/ ~page.cover \/ ~page.meta
                  THEN /\ Raise("AttributeError", "fetch_toc")
                       /\ UNCHANGED <<images, cursor>>
                  ELSE /\ images' = <<CoverUrl>>
                       /\ IF MultiVolume(page, volume)
                          THEN /\ Raise("SystemExit", "fetch_toc")
                               /\ UNCHANGED cursor
                          ELSE /\ pc' = "toc_loop"
                               /\ cursor' = 1
                               /\ UNCHANGED raised
    /\ UNCHANGED <<volume, site, chapters, tmp_dir, Images, Text, ncx, nav, opf, out>>

\* line 198 on a p without an a: x.find('a') is None
TocNoAnchor ==
    /\ InLoop
    /\ ~Anchor.a
    /\ Raise("AttributeError", "fetch_toc")
    /\ UNCHANGED <<volume, site, soup, cursor, chapters, images, fetched, tmp_dir,
                   Images, Text, ncx, nav, opf, out>>

\* lines 200-201
TocExternal ==
    /\ InLoop
    /\ Anchor.a
    /\ ~OnDomain(Anchor.href)
    /\ cursor' = cursor + 1
    /\ UNCHANGED <<pc, volume, site, soup, chapters, images, fetched, tmp_dir,
                   Images, Text, ncx, nav, opf, raised, out>>

\* lines 204-206 with no h2 before the anchor: find_previous_sibling is None
TocNoHeading ==
    /\ InLoop
    /\ Anchor.a
    /\ OnDomain(Anchor.href)
    /\ Truthy(volume)
    /\ PrevHeading(soup.elems, At) = 0
    /\ Raise("AttributeError", "fetch_toc")
    /\ UNCHANGED <<volume, site, soup, cursor, chapters, images, fetched, tmp_dir,
                   Images, Text, ncx, nav, opf, out>>

\* lines 208-209
TocEarlier ==
    /\ InLoop
    /\ Anchor.a
    /\ OnDomain(Anchor.href)
    /\ Truthy(volume)
    /\ PrevHeading(soup.elems, At) /= 0
    /\ Earlier(ChapterVolume(soup.elems, At), volume)
    /\ cursor' = cursor + 1
    /\ UNCHANGED <<pc, volume, site, soup, chapters, images, fetched, tmp_dir,
                   Images, Text, ncx, nav, opf, raised, out>>

\* lines 211-212, then the return of line 224
TocLater ==
    /\ InLoop
    /\ Anchor.a
    /\ OnDomain(Anchor.href)
    /\ Truthy(volume)
    /\ PrevHeading(soup.elems, At) /= 0
    /\ ~Earlier(ChapterVolume(soup.elems, At), volume)
    /\ Later(ChapterVolume(soup.elems, At), volume)
    /\ pc' = "create_folder_structure"
    /\ UNCHANGED <<volume, site, soup, cursor, chapters, images, fetched, tmp_dir,
                   Images, Text, ncx, nav, opf, raised, out>>

\* lines 214-222
TocChapter(status) ==
    /\ InLoop
    /\ Anchor.a
    /\ OnDomain(Anchor.href)
    /\ Truthy(volume) =>
        /\ PrevHeading(soup.elems, At) /= 0
        /\ ~Earlier(ChapterVolume(soup.elems, At), volume)
        /\ ~Later(ChapterVolume(soup.elems, At), volume)
    /\ CanGet(status)
    /\ fetched' = Append(fetched, Request("chapter", At, status))
    /\ IF status = "exception"
       THEN /\ Raise("ConnectionError", "fetch_toc")
            /\ UNCHANGED <<cursor, chapters, images>>
       ELSE LET html == ChapterBody(Anchor.href, status)
            IN /\ images' = Collect(images, html)
               /\ chapters' = Append(chapters, Chapter(Anchor.name, html))
               /\ cursor' = cursor + 1
               /\ UNCHANGED <<pc, raised>>
    /\ UNCHANGED <<volume, site, soup, tmp_dir, Images, Text, ncx, nav, opf, out>>

\* the loop ends: return ToC(...)
TocReturn ==
    /\ pc = "toc_loop"
    /\ cursor > Len(Paragraphs(soup.elems))
    /\ pc' = "create_folder_structure"
    /\ UNCHANGED <<volume, site, soup, cursor, chapters, images, fetched, tmp_dir,
                   Images, Text, ncx, nav, opf, raised, out>>

------------------------------------------------------------------------------
\* Rendering

\* a path <dir>/<stem>.<ext> written into a template
Path(d, stem, ext) == [dir |-> d, stem |-> stem, ext |-> ext]

LoopIndex0(i) == i - 1
\* jinja's loop.index of the i-th iteration
LoopIndex(i) == i

\* toc.ncx: one navPoint per chapter
NavPoints(chs) ==
    [i \in 1..Len(chs) |->
        [id |-> [prefix |-> "chapter", n |-> LoopIndex(i)],
         playOrder |-> LoopIndex(i),
         text |-> chs[i].name,
         src |-> Path("Text", chs[i].name, "xhtml")]]

\* toc.xhtml: one li per chapter
NavItems(chs) ==
    [i \in 1..Len(chs) |->
        [href |-> Path("../Text", chs[i].name, "xhtml"), text |-> chs[i].name]]

\* content.opf: the item of the i-th image, for the images of a supported type
SupportedAny(url) == TRUE
Supported(url) == MediaType(url) /= ""
ImageItems(imgs) ==
    LET kept == SelectSeq([i \in 1..Len(imgs) |-> i], LAMBDA i : Supported(imgs[i]))
    IN [k \in 1..Len(kept) |->
           [id |-> [prefix |-> "image", n |-> LoopIndex(kept[k])],
            href |-> [dir |-> "Images", name |-> Basename(imgs[kept[k]])],
            media |-> MediaType(imgs[kept[k]])]]

\* content.opf: one item per chapter
ChapterItems(chs) ==
    [i \in 1..Len(chs) |->
        [id |-> [prefix |-> "xhtml", n |-> LoopIndex(i)],
         href |-> Path("Text", chs[i].name, "xhtml"),
         media |-> "application/xhtml+xml"]]

\* content.opf: the spine
Spine(chs) ==
    <<[prefix |-> "cover", n |-> 0]>>
        \o [i \in 1..Len(chs) |-> [prefix |-> "xhtml", n |-> LoopIndex(i)]]
        \o <<[prefix |-> "nav", n |-> 0]>>

Package(imgs, chs) ==
    [images |-> ImageItems(imgs), chapters |-> ChapterItems(chs), spine |-> Spine(chs)]

NoPackage == [images |-> <<>>, chapters |-> <<>>, spine |-> <<>>]

\* a page of OEBPS/Text: its title, its plain img elements (their src) and its
\* SVG wrappers (the xlink:href of the image and the URL of the comment)
Page(title, img, svg) == [title |-> title, img |-> img, svg |-> svg, empty |-> FALSE]

\* the file just opened with 'wt+', nothing written yet
EmptyFile == [title |-> "", img |-> <<>>, svg |-> <<>>, empty |-> TRUE]

LocalImage(url) == [dir |-> "../Images", name |-> Basename(url)]

\* write_illustrations: the images of the chapter's wp-block-image blocks
GalleryImages(html) == html.blocks
Gallery(chapter) ==
    LET imgs == GalleryImages(chapter.html)
    IN Page(chapter.name, [i \in 1..Len(imgs) |-> LocalImage(imgs[i])], <<>>)

HasRequiredButScript(html) == html.entry /\ html.share
\* lines 363-381: the lookups that are dereferenced without a test
HasRequired(html) == html.entry /\ html.share /\ html.script

\* lines 384-396: every img of the entry content becomes an SVG wrapper
EntryImages(html) == html.blocks \o html.loose
Remap(html) ==
    [i \in 1..Len(EntryImages(html)) |->
        [href |-> LocalImage(EntryImages(html)[i]), comment |-> EntryImages(html)[i]]]

IsIllustrationsNever(chapter) == FALSE
\* which chapters take the write_illustrations branch
IsIllustrations(chapter) == chapter.name = "Illustrations"

------------------------------------------------------------------------------
\* the steps of build after fetch_toc

CreateFolderStructure ==
    /\ pc = "create_folder_structure"
    /\ pc' = "fetch_images"
    /\ cursor' = 1
    /\ UNCHANGED <<volume, site, soup, chapters, images, fetched, tmp_dir,
                   Images, Text, ncx, nav, opf, raised, out>>

\* one iteration of fetch_images
FetchImage(status) ==
    /\ pc = "fetch_images"
    /\ cursor <= Len(images)
    /\ CanGet(status)
    /\ fetched' = Append(fetched, Request("image", cursor, status))
    /\ IF status = "exception"
       THEN /\ Raise("ConnectionError", "fetch_images")
            /\ UNCHANGED <<cursor, Images>>
       ELSE /\ Images' = Put(Images, Basename(images[cursor]), ImageBody(status))
            /\ cursor' = cursor + 1
            /\ UNCHANGED <<pc, raised>>
    /\ UNCHANGED <<volume, site, soup, chapters, images, tmp_dir, Text, ncx, nav, opf, out>>

FetchImagesDone ==
    /\ pc = "fetch_images"
    /\ cursor > Len(images)
    /\ pc' = "write_cover"
    /\ UNCHANGED <<volume, site, soup, cursor, chapters, images, fetched, tmp_dir,
                   Images, Text, ncx, nav, opf, raised, out>>

WriteCover ==
    /\ pc = "write_cover"
    /\ pc' = "write_toc"
    /\ UNCHANGED <<volume, site, soup, cursor, chapters, images, fetched, tmp_dir,
                   Images, Text, ncx, nav, opf, raised, out>>

WriteToc ==
    /\ pc = "write_toc"
    /\ ncx' = NavPoints(chapters)
    /\ nav' = NavItems(chapters)
    /\ pc' = "write_content"
    /\ UNCHANGED <<volume, site, soup, cursor, chapters, images, fetched, tmp_dir,
                   Images, Text, opf, raised, out>>

WriteContent ==
    /\ pc = "write_content"
    /\ opf' = Package(images, chapters)
    /\ pc' = "write_chapters"
    /\ cursor' = 1
    /\ UNCHANGED <<volume, site, soup, chapters, images, fetched, tmp_dir,
                   Images, Text, ncx, nav, raised, out>>

\* lines 357-359
WriteIllustrations ==
    /\ pc = "write_chapters"
    /\ cursor <= Len(chapters)
    /\ IsIllustrations(chapters[cursor])
    /\ Text' = Put(Text, chapters[cursor].name, Gallery(chapters[cursor]))
    /\ cursor' = cursor + 1
    /\ UNCHANGED <<pc, volume, site, soup, chapters, images, fetched, tmp_dir,
                   Images, ncx, nav, opf, raised, out>>

\* lines 361-413
WriteChapter ==
    /\ pc = "write_chapters"
    /\ cursor <= Len(chapters)
    /\ ~IsIllustrations(chapters[cursor])
    /\ LET chapter == chapters[cursor]
       IN IF HasRequired(chapter.html)
          THEN /\ Text' = Put(Text, chapter.name, Page(chapter.name, <<>>, Remap(chapter.html)))
               /\ cursor' = cursor + 1
               /\ UNCHANGED <<pc, raised>>
          ELSE /\ Text' = Put(Text, chapter.name, EmptyFile)
               /\ Raise("AttributeError", "write_chapters")
               /\ UNCHANGED cursor
    /\ UNCHANGED <<volume, site, soup, chapters, images, fetched, tmp_dir,
                   Images, ncx, nav, opf, out>>

WriteChaptersDone ==
    /\ pc = "write_chapters"
    /\ cursor > Len(chapters)
    /\ pc' = "write_epub"
    /\ UNCHANGED <<volume, site, soup, cursor, chapters, images, fetched, tmp_dir,
                   Images, Text, ncx, nav, opf, raised, out>>

WriteEpub ==
    /\ pc = "write_epub"
    /\ out' = TRUE
    /\ pc' = "exit_with"
    /\ UNCHANGED <<volume, site, soup, cursor, chapters, images, fetched, tmp_dir,
                   Images, Text, ncx, nav, opf, raised>>

\* the with statement of build is entered
EnterBuild ==
    /\ pc = "build"
    /\ tmp_dir' = "present"
    /\ pc' = "fetch_toc"
    /\ UNCHANGED <<volume, site, soup, cursor, chapters, images, fetched,
                   Images, Text, ncx, nav, opf, raised, out>>

\* the with statement is left, normally or by an exception
ExitWith ==
    /\ pc = "exit_with"
    /\ tmp_dir' = Cleanup(raised)
    /\ IF Cleanup(raised) = "removed"
       THEN /\ Images' = NoFiles
            /\ Text' = NoFiles
            /\ ncx' = <<>>
            /\ nav' = <<>>
            /\ opf' = NoPackage
       ELSE UNCHANGED <<Images, Text, ncx, nav, opf>>
    /\ pc' = "returned"
    /\ UNCHANGED <<volume, site, soup, cursor, chapters, images, fetched, raised, out>>

Init ==
    /\ pc = "build"
    /\ volume \in Volumes
    /\ site \in Sites
    /\ soup = ErrorIndex
    /\ cursor = 1
    /\ chapters = <<>>
    /\ images = <<>>
    /\ fetched = <<>>
    /\ tmp_dir = "none"
    /\ Images = NoFiles
    /\ Text = NoFiles
    /\ ncx = <<>>
    /\ nav = <<>>
    /\ opf = NoPackage
    /\ raised = NoException
    /\ out = FALSE

Next ==
    \/ EnterBuild
    \/ \E status \in Statuses : FetchToc(status)
    \/ TocNoAnchor
    \/ TocExternal
    \/ TocNoHeading
    \/ TocEarlier
    \/ TocLater
    \/ \E status \in Statuses : TocChapter(status)
    \/ TocReturn
    \/ CreateFolderStructure
    \/ \E status \in Statuses : FetchImage(status)
    \/ FetchImagesDone
    \/ WriteCover
    \/ WriteToc
    \/ WriteContent
    \/ WriteIllustrations
    \/ WriteChapter
    \/ WriteChaptersDone
    \/ WriteEpub
    \/ ExitWith

Spec == Init /\ [][Next]_vars

------------------------------------------------------------------------------
\* What a state says about the run so far

StepNo(step) ==
    CASE step = "build" -> 0
      [] step = "fetch_toc" -> 1
      [] step = "toc_loop" -> 1
      [] step = "create_folder_structure" -> 2
      [] step = "fetch_images" -> 3
      [] step = "write_cover" -> 4
      [] step = "write_toc" -> 5
      [] step = "write_content" -> 6
      [] step = "write_chapters" -> 7
      [] step = "write_epub" -> 8
      [] OTHER -> 9

\* the step build is in, or was in when it was left
Reached ==
    IF pc \in {"exit_with", "returned"}
    THEN IF raised = NoException THEN StepNo("exit_with") ELSE StepNo(raised.at)
    ELSE StepNo(pc)

Failing == pc \in {"exit_with", "returned"} /\ raised /= NoException

\* fetch_toc has returned a manifest
ManifestReturned == Reached > StepNo("fetch_toc")

\* the files of the workspace can be read
OnDisk == tmp_dir = "present"

\* the positions of the anchors whose page was requested, in request order
Requested ==
    LET rs == SelectSeq(fetched, LAMBDA r : r.kind = "chapter")
    IN [i \in 1..Len(rs) |-> rs[i].at]

IsChapterAnchor(elems, i) == elems[i].tag = "p" /\ elems[i].a /\ OnDomain(elems[i].href)

\* the anchors that write_chapters has gone through without failing
Rendered ==
    IF Reached = StepNo("write_chapters") THEN cursor - 1
    ELSE IF Reached > StepNo("write_chapters") THEN Len(chapters)
    ELSE 0

------------------------------------------------------------------------------
\* C1: when the index page has a heading starting with "Volume" and no volume
\* argument was given, the build fails, and the index fetch is the only fetch
\* made: no chapter page is fetched and no archive is written.
C1_MultiVolumeFailsBeforeChapters ==
    (pc \notin {"build", "fetch_toc"} /\ VolumeHeadings(soup) /= {} /\ ~Truthy(volume))
        => /\ Failing
           /\ fetched = <<Request("index", 0, "ok")>>
           /\ chapters = <<>>
           /\ ~out

C1_Witness ==
    /\ pc = "returned"
    /\ raised = [exc |-> "SystemExit", at |-> "fetch_toc"]
    /\ VolumeHeadings(soup) /= {}
    /\ \E i \in 1..Len(soup.elems) : IsChapterAnchor(soup.elems, i)

\* C2: for an index whose chapter anchors are volume-contiguous and a filter v,
\* the manifest retains exactly the anchors whose volume token equals v, in
\* document order.
HasVolume(elems, i) == IsChapterAnchor(elems, i) /\ PrevHeading(elems, i) /= 0

Contiguous(elems) ==
    /\ \A i \in 1..Len(elems) : IsChapterAnchor(elems, i) => HasVolume(elems, i)
    /\ \A i, j, k \in 1..Len(elems) :
        (/\ i < j /\ j < k
         /\ HasVolume(elems, i) /\ HasVolume(elems, j) /\ HasVolume(elems, k)
         /\ ChapterVolume(elems, i) = ChapterVolume(elems, k))
            => ChapterVolume(elems, j) = ChapterVolume(elems, i)

OfVolume(elems, v) ==
    SelectSeq([i \in 1..Len(elems) |-> i],
              LAMBDA i : HasVolume(elems, i) /\ ChapterVolume(elems, i) = v)

C2_FilterRetainsItsVolume ==
    (ManifestReturned /\ Truthy(volume) /\ Contiguous(soup.elems))
        => /\ Requested = OfVolume(soup.elems, volume)
           /\ Len(chapters) = Len(Requested)
           /\ \A i \in 1..Len(chapters) : chapters[i].name = soup.elems[Requested[i]].name

\* C3: images[0] of a manifest is the cover URL and images[1:] is the
\* concatenation, chapter by chapter in traversal order, of the image URLs of
\* each chapter's page in page order, duplicates included.
RECURSIVE Embedded(_)
Embedded(chs) ==
    IF chs = <<>> THEN <<>> ELSE chs[1].html.blocks \o Embedded(Tail(chs))

C3_ImagesAreCoverThenChapterImages ==
    ManifestReturned => images = <<CoverUrl>> \o Embedded(chapters)

C3_Witness ==
    /\ ManifestReturned
    /\ Len(chapters) >= 2
    /\ \E i, j \in 2..Len(images) : i < j /\ images[i] = images[j]

\* C4: for a manifest with pairwise distinct chapter names, toc.ncx, toc.xhtml
\* and content.opf each have one entry per chapter, in manifest order; the i-th
\* is navPoint chapter<i> with playOrder i, item xhtml<i>, and links to
\* Text/<name of chapter i>.xhtml.
DistinctNames(chs) ==
    \A i, j \in 1..Len(chs) : chs[i].name = chs[j].name => i = j

C4_OneEntryPerChapterInOrder ==
    (OnDisk /\ Reached > StepNo("write_content") /\ DistinctNames(chapters))
        => /\ Len(ncx) = Len(chapters)
           /\ Len(nav) = Len(chapters)
           /\ Len(opf.chapters) = Len(chapters)
           /\ \A i \in 1..Len(chapters) :
                /\ ncx[i].id = [prefix |-> "chapter", n |-> i]
                /\ ncx[i].playOrder = i
                /\ ncx[i].src = [dir |-> "Text", stem |-> chapters[i].name, ext |-> "xhtml"]
                /\ nav[i].href = [dir |-> "../Text", stem |-> chapters[i].name, ext |-> "xhtml"]
                /\ opf.chapters[i].id = [prefix |-> "xhtml", n |-> i]
                /\ opf.chapters[i].href = [dir |-> "Text", stem |-> chapters[i].name, ext |-> "xhtml"]

C4_Witness ==
    /\ OnDisk
    /\ Reached > StepNo("write_content")
    /\ Len(chapters) >= 2
    /\ DistinctNames(chapters)
    /\ Len(ncx) = 2

\* C5: a response that is an error status, for the index page, a retained
\* chapter page or an image, makes the build fail at once: it is the last
\* request made, an exception is leaving build and no archive is written.
C5_NonContentResponseAborts ==
    \A i \in 1..Len(fetched) :
        fetched[i].status = "http_error"
            => i = Len(fetched) /\ Failing /\ ~out

\* C6: build creates one temporary directory when it starts, keeps it while it
\* runs, and has removed it, with everything written under it, whenever it has
\* returned or let an exception out.
C6_WorkspaceRemovedOnEveryExit ==
    /\ pc = "build" => tmp_dir = "none"
    /\ pc \notin {"build", "returned"} => tmp_dir = "present"
    /\ pc = "returned" =>
        /\ tmp_dir = "removed"
        /\ Images = NoFiles /\ Text = NoFiles
        /\ ncx = <<>> /\ nav = <<>> /\ opf = NoPackage

C6_Witness ==
    /\ pc = "returned"
    /\ raised.exc = "SystemExit"
    /\ tmp_dir = "removed"

\* C7: an image URL of the manifest whose extension is neither .jpg nor .png
\* is fetched and saved under OEBPS/Images, has no item in content.opf, and
\* does not fail the build: fetch_images fails only on a request that raised,
\* and write_content never fails.
Unsupported(url) == url.ext \notin {"jpg", "png"}

C7_UnsupportedImageSavedNotListed ==
    /\ (OnDisk /\ Reached > StepNo("fetch_images")) =>
        \A i \in 1..Len(images) :
            Unsupported(images[i]) =>
                /\ Basename(images[i]) \in DOMAIN Images
                /\ \E r \in 1..Len(fetched) : fetched[r].kind = "image" /\ fetched[r].at = i
    /\ (OnDisk /\ Reached > StepNo("write_content")) =>
        /\ \A i \in 1..Len(images) :
            Unsupported(images[i]) =>
                \A k \in 1..Len(opf.images) :
                    /\ opf.images[k].href.name /= Basename(images[i])
                    /\ opf.images[k].id.n /= i
        /\ Len(opf.images) = Cardinality({i \in 1..Len(images) : ~Unsupported(images[i])})
    /\ (Failing /\ raised.at = "fetch_images") => fetched[Len(fetched)].status = "exception"
    /\ raised.at /= "write_content"

C7_Witness ==
    /\ pc = "write_epub"
    /\ \E i \in 1..Len(images) : images[i].ext = "webp" /\ Basename(images[i]) \in DOMAIN Images
    /\ Len(opf.images) < Len(images)

\* C8: write_chapters fails on an ordinary chapter whose content container has
\* no sharing block or no script element, the failure leaves build and no
\* archive is written; a chapter that has both is rendered whether or not it
\* has an ad wrapper, a horizontal rule or a style element.
Ordinary(chapter) == chapter.name /= "Illustrations"

C8_MissingRequiredElementAborts ==
    /\ \A i \in 1..Rendered :
        Ordinary(chapters[i]) => chapters[i].html.share /\ chapters[i].html.script
    /\ out => \A i \in 1..Len(chapters) :
        Ordinary(chapters[i]) => chapters[i].html.share /\ chapters[i].html.script
    /\ (Failing /\ raised.at = "write_chapters") =>
        /\ ~out
        /\ Ordinary(chapters[cursor])
        /\ LET html == chapters[cursor].html
           IN ~html.entry \/ ~html.share \/ ~html.script

C8_Witness ==
    /\ pc = "returned"
    /\ raised = [exc |-> "AttributeError", at |-> "write_chapters"]
    /\ chapters[cursor].html.entry
    /\ ~chapters[cursor].html.script
    /\ ~out

\* C9: the page of a chapter named "Illustrations" is the gallery of
\* write_illustrations: one plain img per image of the chapter's raw HTML, with
\* src ../Images/<basename of its URL>, in source order, and no SVG wrapper.
LastNamed(name) ==
    LET is == {i \in 1..Rendered : chapters[i].name = name}
    IN IF is = {} THEN 0 ELSE CHOOSE i \in is : \A k \in is : k <= i

Above(elems, v) ==
    {i \in 1..Len(elems) : HasVolume(elems, i) /\ StrLess(v, ChapterVolume(elems, i))}

FirstAbove(elems, v) ==
    IF Above(elems, v) = {} THEN Len(elems) + 1
    ELSE CHOOSE i \in Above(elems, v) : \A k \in Above(elems, v) : i <= k

C10_SkipBelowStopAtFirstAbove ==
    Truthy(volume) =>
        /\ \A r \in 1..Len(Requested) :
            /\ Requested[r] < FirstAbove(soup.elems, volume)
            /\ ~StrLess(ChapterVolume(soup.elems, Requested[r]), volume)
        /\ ManifestReturned =>
            Requested = SelectSeq([i \in 1..Len(soup.elems) |-> i],
                LAMBDA i : /\ HasVolume(soup.elems, i)
                           /\ i < FirstAbove(soup.elems, volume)
                           /\ ~StrLess(ChapterVolume(soup.elems, i), volume))

C10_Witness ==
    /\ ManifestReturned
    /\ volume = Tok10
    /\ chapters = <<>>
    /\ \E i, j \in 1..Len(soup.elems) :
        /\ i < j
        /\ HasVolume(soup.elems, i) /\ ChapterVolume(soup.elems, i) = Tok2
        /\ HasVolume(soup.elems, j) /\ ChapterVolume(soup.elems, j) = Tok10

\* C11: in a completed build, every ../Images/<name> that a chapter page
\* refers to, from an SVG wrapper of write_chapters or an img of
\* write_illustrations, is the basename of a URL of the manifest's image list
\* and a file that fetch_images saved under OEBPS/Images.
Referenced(page) ==
    {page.img[i].name : i \in 1..Len(page.img)}
        \cup {page.svg[i].href.name : i \in 1..Len(page.svg)}

C11_ReferencedImagesAreInManifest ==
    (OnDisk /\ Reached > StepNo("write_chapters")) =>
        \A n \in DOMAIN Text :
            \A f \in Referenced(Text[n]) :
                /\ \E i \in 1..Len(images) : images[i].file = f.file /\ images[i].ext = f.ext
                /\ f \in DOMAIN Images

====
